---- MODULE Spec2Model ----
(***************************************************************************)
(* Linear-Discord communication relay (src/main.go, second program of the  *)
(* file, lines 624-1676): an HTTP server with the endpoints /webhook,      *)
(* /report, /report/by-user, /health and /.  The model follows one request *)
(* at a time from its arrival to its response and records every outbound   *)
(* request the handler makes: queries to the Linear GraphQL API, POSTs to  *)
(* the Discord webhook and the sleeps between them.                        *)
(***************************************************************************)
EXTENDS Integers, Sequences, FiniteSets, TLC

VARIABLES
    linearAPIKey,       \* main.go:811, set once by main
    discordWebhookURL,  \* main.go:812, set once by main
    env,                \* the upstream API the server talks to (fixed per run)
    pc,                 \* position of the request being served
    req,                \* the request being served / served last
    resp,               \* the response written to the caller
    allIssues,          \* fetchAllOpenIssues: allIssues
    cursor,             \* fetchAllOpenIssues: cursor
    queries,            \* log: page requests sent to the upstream API
    nQueries,           \* number of page requests sent (saturates)
    byAssignee,         \* generateUserTasksReport: byAssignee
    groupIdx,           \* generateUserTasksReport: next group of the range loop
    embeds,             \* generateUserTasksReport: embeds
    posts,              \* log: HTTP POSTs made to the Discord webhook
    sends,              \* log: calls of sendToDiscord and what they returned
    sleeps,             \* log: for each time.Sleep, the number of POSTs before it
    goroutines,         \* net/http: one goroutine per request served concurrently
    frames              \* the local variables of each goroutine's handler call

vars == <<linearAPIKey, discordWebhookURL, env, pc, req, resp, allIssues, cursor,
          queries, nQueries, byAssignee, groupIdx, embeds, posts, sends, sleeps,
          goroutines, frames>>

(***************************************************************************)
(* Bounds of the model.                                                    *)
(***************************************************************************)
MaxPages == 3
MaxUsers == 25
MaxTasks == 23
MaxOver == 1

(***************************************************************************)
(* Program constants.                                                      *)
(***************************************************************************)
ColorBlue == 6187730
ColorGreen == 2278750
ColorYellow == 15381256
ColorRed == 15680580
ColorGray == 7041664
ColorPurple == 9133302

StatusOK == 200
StatusBadRequest == 400
StatusNotFound == 404
StatusMethodNotAllowed == 405
StatusInternalServerError == 500
StatusServiceUnavailable == 503

EmbedBatch == 10
TaskLimit == 15
SleepMillis == 500

(***************************************************************************)
(* Small helpers on sequences.                                             *)
(***************************************************************************)
Range(s) == {s[i] : i \in 1..Len(s)}

RECURSIVE Flatten(_)
Flatten(ss) == IF ss = <<>> THEN <<>> ELSE Head(ss) \o Flatten(Tail(ss))

Min(a, b) == IF a < b THEN a ELSE b

(***************************************************************************)
(* HTTP responses written by the handlers.                                 *)
(***************************************************************************)
NoResp == [status |-> 0, contentType |-> "", body |-> ""]

\* http.Error: plain text with the given status
HttpError(msg, code) == [status |-> code, contentType |-> "text/plain", body |-> msg]

\* Content-Type application/json, json.NewEncoder(w).Encode(...), implicit 200
JsonOK(statusText) ==
    [status |-> StatusOK, contentType |-> "application/json", body |-> statusText]

\* w.WriteHeader(http.StatusOK) and nothing else
EmptyOK == [status |-> StatusOK, contentType |-> "", body |-> ""]

(***************************************************************************)
(* Discord side: an embed, a webhook payload, and the outcome of one POST. *)
(***************************************************************************)
\* Text that comes with a request or an issue (a description, a comment
\* body, a title) is a sequence of bytes; the fixed texts of the program
\* are strings.
Dots == <<46, 46, 46>>
NoDescription == <<42, 78, 111, 32, 100, 101, 115, 99, 114, 105, 112, 116, 105, 111, 110, 42>>

\* title and color as the code sets them (the emoji and the markdown around
\* the values are left out); body is the part of the description that
\* comes from the payload; name, count, groups, urgent, high are the values
\* formatted into the title or description; lines are the lines joined into
\* the description; statusLines and assigneeLines are the two fields of the
\* summary embed and timestamp its Timestamp, in hours (the other embeds'
\* timestamps are left out).
Embed(title, body, color) ==
    [body |-> body, title |-> title, color |-> color,
     name |-> "", count |-> 0, groups |-> 0, urgent |-> 0, high |-> 0,
     lines |-> <<>>, statusLines |-> <<>>, assigneeLines |-> <<>>, timestamp |-> 0]

Payload(username, es) == [embeds |-> es, username |-> username]

TransportError == [status |-> 0, completed |-> FALSE]
Status(n) == [status |-> n, completed |-> TRUE]

PostStatuses == {101, 200, 299, 300, 500}
PostOutcomes == {TransportError} \cup {Status(n) : n \in PostStatuses}

\* a variant that posts a second time when the first POST fails
sendToDiscordRetry(payload, outcome) ==
    LET failed == ~outcome.completed \/ outcome.status < 200 \/ outcome.status >= 300
        post == [embeds |-> payload.embeds, username |-> payload.username,
                 outcome |-> outcome]
    IN  [posts |-> IF failed THEN <<post, post>> ELSE <<post>>, err |-> failed]

\* a variant that accepts status 300
sendToDiscordOffByOne(payload, outcome) ==
    [posts |-> <<[embeds |-> payload.embeds, username |-> payload.username,
                  outcome |-> outcome]>>,
     err |-> ~outcome.completed \/ outcome.status < 200 \/ outcome.status > 300]

\* sendToDiscord: json.Marshal of a DiscordWebhook cannot fail (strings,
\* ints and slices only), so the call always reaches http.Post, once.
sendToDiscord(payload, outcome) ==
    [posts |-> <<[embeds |-> payload.embeds, username |-> payload.username,
                  outcome |-> outcome]>>,
     err |-> ~outcome.completed \/ outcome.status < 200 \/ outcome.status >= 300]

\* One call of sendToDiscord appended to the logs.
Sent(s) == [err |-> s.err, nposts |-> Len(s.posts)]

\* a variant that keeps maxLen bytes before the dots
truncateKeepsMaxLen(s, maxLen) ==
    IF Len(s) <= maxLen THEN s ELSE SubSeq(s, 1, maxLen) \o Dots

\* len and the slice expression of Go count bytes
truncate(s, maxLen) ==
    IF Len(s) <= maxLen THEN s ELSE SubSeq(s, 1, maxLen - 3) \o Dots

(***************************************************************************)
(* Webhook relay: the request body, the envelope and its payload.          *)
(***************************************************************************)
Methods == {"POST", "GET"}
Types == {"Issue", "Comment", "Project", "Cycle", ""}
KnownTypes == {"Issue", "Comment", "Project"}
Actions == {"create", "update", "remove", "archive"}
Texts == {<<>>, <<104, 105>>}

\* The "data" member of the envelope, a json.RawMessage:
\*   absent     the member is missing (the RawMessage stays nil)
\*   null       the JSON literal null
\*   nonobject  a JSON string, number, boolean or array
\*   mistyped   a JSON object with a member of the wrong JSON type
\*   object     a JSON object that fits the payload struct; text is its
\*              description (Issue, Project) or body (Comment)
Data(json, text) == [json |-> json, text |-> text]
Datas == {Data(j, <<>>) : j \in {"absent", "null", "nonobject", "mistyped"}}
         \cup {Data("object", t) : t \in Texts}

\* The request body:
\*   invalid    not JSON (empty, cut short, garbage)
\*   null       the JSON literal null
\*   nonobject  a JSON string, number, boolean or array
\*   mistyped   a JSON object with an envelope member of the wrong JSON type
\*   object     a JSON object that fits the envelope struct
Body(json, type, action, data) ==
    [json |-> json, type |-> type, action |-> action, data |-> data]
Bodies == {Body(j, "", "", Data("absent", <<>>)) :
               j \in {"invalid", "null", "nonobject", "mistyped"}}
          \cup {Body("object", t, a, d) : t \in Types, a \in Actions, d \in Datas}

\* The budgets truncate is called with, and texts of the lengths around them
Budgets == {40, 50, 300, 500}
Text(n) == [i \in 1..n |-> 97 + (i % 26)]
TextLens == {n + d : n \in Budgets, d \in (0 - 1)..MaxOver}
LongTexts == {Text(n) : n \in TextLens}
LongBodies ==
    {Body("object", t, "create", Data("object", s)) : t \in KnownTypes, s \in LongTexts}

\* An event envelope is a JSON object whose members have the envelope's types.
WellFormedEnvelope(body) == body.json = "object"

\* json.Unmarshal(body, &webhook): a syntax error for text that is not JSON,
\* a type error for a value that does not fit the struct; the literal null
\* leaves the struct untouched and is no error.
UnmarshalEnvelope(body) ==
    [err |-> body.json \in {"invalid", "nonobject", "mistyped"},
     webhook |-> IF body.json = "object"
                 THEN [type |-> body.type, action |-> body.action, data |-> body.data]
                 ELSE [type |-> "", action |-> "", data |-> Data("absent", <<>>)]]

\* json.Unmarshal(webhook.Data, &payload): nil data is a syntax error
\* (unexpected end of input), null leaves the zero payload.
UnmarshalData(data) ==
    [err |-> data.json \in {"absent", "nonobject", "mistyped"},
     text |-> IF data.json = "object" THEN data.text ELSE <<>>]


NoPayload == Payload("", <<>>)
Transformed(err, payload) == [payload |-> payload, err |-> err]

transformIssueWebhook(webhook) ==
    LET issue == UnmarshalData(webhook.data)
        title == CASE webhook.action = "create" -> "New Issue Created"
                   [] webhook.action = "update" -> "Issue Updated"
                   [] webhook.action = "remove" -> "Issue Removed"
                   [] webhook.action = "archive" -> "Issue Archive"
                   [] OTHER -> "Issue"
        color == CASE webhook.action = "create" -> ColorBlue
                   [] webhook.action = "update" -> ColorYellow
                   [] webhook.action = "remove" -> ColorRed
                   [] OTHER -> ColorBlue
        d == truncate(issue.text, 300)
        description == IF d = <<>> THEN NoDescription ELSE d
    IN  IF issue.err THEN Transformed(TRUE, NoPayload)
        ELSE Transformed(FALSE, Payload("Linear", <<Embed(title, description, color)>>))

transformCommentWebhook(webhook) ==
    LET comment == UnmarshalData(webhook.data)
        title == CASE webhook.action = "create" -> "New Comment"
                   [] webhook.action = "update" -> "Comment Updated"
                   [] webhook.action = "remove" -> "Comment Removed"
                   [] webhook.action = "archive" -> "Comment Archive"
                   [] OTHER -> "Comment"
    IN  IF comment.err THEN Transformed(TRUE, NoPayload)
        ELSE Transformed(FALSE,
                 Payload("Linear", <<Embed(title, truncate(comment.text, 500), ColorPurple)>>))

transformProjectWebhook(webhook) ==
    LET project == UnmarshalData(webhook.data)
        title == CASE webhook.action = "create" -> "New Project Created"
                   [] webhook.action = "update" -> "Project Updated"
                   [] webhook.action = "remove" -> "Project Removed"
                   [] webhook.action = "archive" -> "Project Archive"
                   [] OTHER -> "Project"
        color == CASE webhook.action = "create" -> ColorGreen
                   [] webhook.action = "update" -> ColorYellow
                   [] webhook.action = "remove" -> ColorRed
                   [] OTHER -> ColorBlue
        d == truncate(project.text, 300)
        description == IF d = <<>> THEN NoDescription ELSE d
    IN  IF project.err THEN Transformed(TRUE, NoPayload)
        ELSE Transformed(FALSE, Payload("Linear", <<Embed(title, description, color)>>))

\* a variant that treats every other type as an issue
transformWebhookToDiscordAll(webhook) ==
    IF webhook.type = "Comment" THEN transformCommentWebhook(webhook)
    ELSE IF webhook.type = "Project" THEN transformProjectWebhook(webhook)
    ELSE transformIssueWebhook(webhook)

\* (nil, nil) for a type outside the switch: err FALSE and no embeds
transformWebhookToDiscord(webhook) ==
    CASE webhook.type = "Issue" -> transformIssueWebhook(webhook)
      [] webhook.type = "Comment" -> transformCommentWebhook(webhook)
      [] webhook.type = "Project" -> transformProjectWebhook(webhook)
      [] OTHER -> Transformed(FALSE, NoPayload)

\* The whole of handleLinearWebhook: the response, and the POSTs and
\* sendToDiscord calls it made.
Handled(r, s) == [resp |-> r, posts |-> s.posts, sends |-> s.sends]
NothingSent == [posts |-> <<>>, sends |-> <<>>]
OneSend(s) == [posts |-> s.posts, sends |-> <<Sent(s)>>]

\* a variant that forwards although the transform failed
handleLinearWebhookForward(method, readOK, body, outcome) ==
    LET u == UnmarshalEnvelope(body)
        t == transformWebhookToDiscord(u.webhook)
        s == sendToDiscord(t.payload, outcome)
    IN  IF method # "POST"
        THEN Handled(HttpError("Method not allowed", StatusMethodNotAllowed), NothingSent)
        ELSE IF ~readOK
        THEN Handled(HttpError("Error reading request", StatusBadRequest), NothingSent)
        ELSE IF u.err
        THEN Handled(HttpError("Invalid JSON", StatusBadRequest), NothingSent)
        ELSE IF t.err
        THEN Handled(HttpError("Error processing webhook", StatusInternalServerError),
                     OneSend(s))
        ELSE IF t.payload = NoPayload
        THEN Handled(EmptyOK, NothingSent)
        ELSE Handled(JsonOK("forwarded"), OneSend(s))

handleLinearWebhook(method, readOK, body, outcome) ==
    LET u == UnmarshalEnvelope(body)
        t == transformWebhookToDiscord(u.webhook)
        s == sendToDiscord(t.payload, outcome)
    IN  IF method # "POST"
        THEN Handled(HttpError("Method not allowed", StatusMethodNotAllowed), NothingSent)
        ELSE IF ~readOK
        THEN Handled(HttpError("Error reading request", StatusBadRequest), NothingSent)
        ELSE IF u.err
        THEN Handled(HttpError("Invalid JSON", StatusBadRequest), NothingSent)
        ELSE IF t.err
        THEN Handled(HttpError("Error processing webhook", StatusInternalServerError),
                     NothingSent)
        ELSE IF t.payload = NoPayload
        THEN Handled(EmptyOK, NothingSent)
        ELSE IF s.err
        THEN Handled(HttpError("Error forwarding to Discord", StatusInternalServerError),
                     OneSend(s))
        ELSE Handled(JsonOK("forwarded"), OneSend(s))

(***************************************************************************)
(* Linear side: issues, and what the GraphQL API answers to a page request.*)
(***************************************************************************)
NoAssignee == [name |-> "", present |-> FALSE, displayName |-> ""]
User(name, displayName) == [name |-> name, present |-> TRUE, displayName |-> displayName]
State(name, type) == [name |-> name, type |-> type]

\* updatedAt is in hours since the zero time
Issue(id, title, priority, state, assignee, updatedAt) ==
    [title |-> title, priority |-> priority, state |-> state, assignee |-> assignee,
     updatedAt |-> updatedAt, identifier |-> id]

IssueA == Issue(1, <<70, 105, 120>>, 1, State("In Progress", "started"), User("ann", "Ann"), 50)
IssueB == Issue(2, <<68, 111, 99>>, 0, State("Todo", "unstarted"), NoAssignee, 30)
IssueC == Issue(3, <<>>, 3, State("Backlog", "backlog"), User("bob", ""), 48)

\* n issues, one for each of n assignees
UserNames ==
    <<"u01", "u02", "u03", "u04", "u05", "u06", "u07", "u08", "u09", "u10",
      "u11", "u12", "u13", "u14", "u15", "u16", "u17", "u18", "u19", "u20",
      "u21", "u22", "u23", "u24", "u25", "u26", "u27", "u28", "u29", "u30">>
UserIssue(i) ==
    Issue(100 + i, <<84>>, 2, State("Todo", "unstarted"), User(UserNames[i], ""), 30)
UsersPage(n) == [i \in 1..n |-> UserIssue(i)]

\* issues of every state type, priority and kind of assignee
IssueM(id, priority, state, assignee) == Issue(id, <<77>>, priority, state, assignee, 30)
IssueM1 == IssueM(301, 1, State("In Progress", "started"), User("ann", "Ann"))
IssueM2 == IssueM(302, 2, State("Todo", "unstarted"), User("ann", "Ann"))
IssueM3 == IssueM(303, 2, State("Backlog", "backlog"), User("bob", ""))
IssueM4 == IssueM(304, 4, State("Triage", "triage"), NoAssignee)
IssueM5 == IssueM(305, 0, State("Done", "completed"), NoAssignee)
IssueM6 == IssueM(306, 3, State("Todo", "unstarted"), NoAssignee)
IssueM7 == IssueM(307, 3, State("Todo", "unstarted"), User("una", "Unassigned"))

\* an urgent issue updated today, with a title of n bytes
TitleIssue(n) ==
    Issue(400 + n, Text(n), 1, State("In Progress", "started"), User("ann", "Ann"), 50)

\* n issues of one assignee, of every priority
TaskIssue(i) ==
    Issue(200 + i, <<84>>, i % 5, State("Todo", "unstarted"), User("ann", "Ann"), 30)
TasksPage(n) == [i \in 1..n |-> TaskIssue(i)]

\* The answer to one page request.  kind:
\*   transport  client.Do failed            read     reading the body failed
\*   status     a status other than 200     badjson  the body is no GraphQLResponse
\*   errors     the response lists errors   baddata  data is no IssuesResponse
\*   page       a page of issues
Failure(kind) == [kind |-> kind, nodes |-> <<>>, hasNextPage |-> FALSE, endCursor |-> ""]
Page(nodes, hasNextPage, endCursor) ==
    [kind |-> "page", nodes |-> nodes, hasNextPage |-> hasNextPage, endCursor |-> endCursor]
FailureKinds == {"transport", "read", "status", "badjson", "errors", "baddata"}

\* What the upstream may answer in a run: the pages it serves, the end
\* cursors it hands out with a page that has a next page and with one that
\* has none, the number of pages after which it stops announcing a next
\* page (0: never stops), the number of issues it has.
SmallEnv ==
    [pages |-> {<<IssueA>>, <<IssueB, IssueC>>}, cursors |-> {"", "c1", "c2"},
     lastCursors |-> {"c2"}, maxPages |-> MaxPages, maxIssues |-> 2 * MaxPages]
UsersEnv ==
    [pages |-> {UsersPage(n) : n \in 1..MaxUsers}, cursors |-> {"c1"},
     lastCursors |-> {"c1"}, maxPages |-> 1, maxIssues |-> MaxUsers]
LoopEnv ==
    [pages |-> {<<>>, <<IssueA>>}, cursors |-> {"", "c1"},
     lastCursors |-> {""}, maxPages |-> 0, maxIssues |-> 1]
TasksEnv ==
    [pages |-> {TasksPage(n) : n \in 1..MaxTasks}, cursors |-> {"c1"},
     lastCursors |-> {"c1"}, maxPages |-> 1, maxIssues |-> MaxTasks]
MixedEnv ==
    [pages |-> {<<IssueM1, IssueM2, IssueM3, IssueM4>>,
                <<IssueM5, IssueM4, IssueM3, IssueM6, IssueM2, IssueM1>>,
                <<IssueM3, IssueM1, IssueM4>>,
                <<IssueM4, IssueM7, IssueM1>>},
     cursors |-> {"c1"}, lastCursors |-> {"c1"}, maxPages |-> 1, maxIssues |-> 6]
TitlesEnv ==
    [pages |-> {<<TitleIssue(n)>> : n \in TextLens}, cursors |-> {"c1"},
     lastCursors |-> {"c1"}, maxPages |-> 1, maxIssues |-> 1]
PairEnv ==
    [pages |-> {<<IssueA>>}, cursors |-> {"c1"}, lastCursors |-> {"c2"},
     maxPages |-> 2, maxIssues |-> 2]
Envs == {"small", "users", "loop", "tasks", "mixed"}
Upstream(e) ==
    CASE e = "small" -> SmallEnv
      [] e = "users" -> UsersEnv
      [] e = "loop" -> LoopEnv
      [] e = "tasks" -> TasksEnv
      [] e = "mixed" -> MixedEnv
      [] e = "titles" -> TitlesEnv
      [] e = "pair" -> PairEnv

UpstreamAnswers(e) ==
    {Failure(k) : k \in FailureKinds}
    \cup {Page(n, TRUE, c) : n \in Upstream(e).pages, c \in Upstream(e).cursors}
    \cup {Page(n, FALSE, c) : n \in Upstream(e).pages, c \in Upstream(e).lastCursors}

\* executeGraphQL: the data of the response, or an error
executeGraphQL(answer) ==
    [err |-> answer.kind \in {"transport", "read", "status", "badjson", "errors"},
     data |-> answer]

\* the variables of the query: the cursor only when it is not empty
Variables(c) == [cursor |-> c, hasCursor |-> c # ""]

\* a variant that keeps the first end cursor
fetchStepKeepCursor(issues, c, answer) ==
    LET r == executeGraphQL(answer)
    IN  IF r.err \/ r.data.kind = "baddata"
        THEN [allIssues |-> <<>>, cursor |-> c, err |-> TRUE, done |-> TRUE]
        ELSE [allIssues |-> issues \o r.data.nodes,
              cursor |-> IF r.data.hasNextPage /\ c = "" THEN r.data.endCursor ELSE c,
              err |-> FALSE,
              done |-> ~r.data.hasNextPage]

\* a variant that returns what it has when a page fails
fetchStepIgnoreErrors(issues, c, answer) ==
    LET r == executeGraphQL(answer)
    IN  IF r.err \/ r.data.kind = "baddata"
        THEN [allIssues |-> issues, cursor |-> c, err |-> FALSE, done |-> TRUE]
        ELSE [allIssues |-> issues \o r.data.nodes,
              cursor |-> IF r.data.hasNextPage THEN r.data.endCursor ELSE c,
              err |-> FALSE,
              done |-> ~r.data.hasNextPage]

\* One iteration of the loop of fetchAllOpenIssues on the answer to its
\* request: err (return nil, err), done (break), the issues and the cursor.
fetchStep(issues, c, answer) ==
    LET r == executeGraphQL(answer)
    IN  IF r.err \/ r.data.kind = "baddata"
        THEN [allIssues |-> <<>>, cursor |-> c, err |-> TRUE, done |-> TRUE]
        ELSE [allIssues |-> issues \o r.data.nodes,
              cursor |-> IF r.data.hasNextPage THEN r.data.endCursor ELSE c,
              err |-> FALSE,
              done |-> ~r.data.hasNextPage]

(***************************************************************************)
(* Grouping.  A Go map is ranged over in an unspecified order and          *)
(* sort.Slice is not stable, so groups that compare equal come out in any  *)
(* order: every order of the map is tried for up to MaxPermute groups, the *)
(* order of first appearance and its reverse beyond that.                  *)
(***************************************************************************)
MaxPermute == 3
MaxRequests == 2

Reverse(s) == [i \in 1..Len(s) |-> s[Len(s) + 1 - i]]

MapPermutations(s) ==
    LET n == Len(s)
    IN  {[i \in 1..n |-> s[p[i]]] :
            p \in {f \in [1..n -> 1..n] : \A i, j \in 1..n : f[i] = f[j] => i = j}}

MapOrders(s) == IF Len(s) <= MaxPermute THEN MapPermutations(s) ELSE {s, Reverse(s)}

\* sort.Slice as a stable insertion sort of the order it is given
SortSlice(s, Less(_, _)) ==
    LET RECURSIVE Insert(_, _)
        Insert(x, t) ==
            IF t = <<>> THEN <<x>>
            ELSE IF Less(x, Head(t)) THEN <<x>> \o t
            ELSE <<Head(t)>> \o Insert(x, Tail(t))
        RECURSIVE Sort(_)
        Sort(t) ==
            IF t = <<>> THEN <<>>
            ELSE Insert(t[Len(t)], Sort(SubSeq(t, 1, Len(t) - 1)))
    IN  Sort(s)

\* the keys of a list in the order of their first appearance
RECURSIVE Distinct(_)
Distinct(keys) ==
    IF keys = <<>> THEN <<>>
    ELSE LET rest == Distinct(SubSeq(keys, 1, Len(keys) - 1))
             k == keys[Len(keys)]
         IN  IF k \in Range(rest) THEN rest ELSE Append(rest, k)

\* a variant that ranks backlog before unstarted
getStatusPrioritySwapped(statusType) ==
    CASE statusType = "started" -> 1
      [] statusType = "unstarted" -> 3
      [] statusType = "backlog" -> 2
      [] OTHER -> 4

getStatusPriority(statusType) ==
    CASE statusType = "started" -> 1
      [] statusType = "unstarted" -> 2
      [] statusType = "backlog" -> 3
      [] OTHER -> 4

LessStatus(a, b) == getStatusPriority(a.type) < getStatusPriority(b.type)

\* a variant that starts a new member list at every issue
StatusGroupsOverwrite(issues) ==
    LET names == Distinct([i \in 1..Len(issues) |-> issues[i].state.name])
    IN  [k \in 1..Len(names) |->
            LET members == SelectSeq(issues, LAMBDA x : x.state.name = names[k])
            IN  [name |-> names[k], type |-> members[1].state.type,
                 issues |-> <<members[Len(members)]>>]]

\* a group takes its type from the first issue that has its name
StatusGroups(issues) ==
    LET names == Distinct([i \in 1..Len(issues) |-> issues[i].state.name])
    IN  [k \in 1..Len(names) |->
            LET members == SelectSeq(issues, LAMBDA x : x.state.name = names[k])
            IN  [name |-> names[k], type |-> members[1].state.type, issues |-> members]]

\* the results groupByStatus can return
groupByStatus(issues) ==
    {SortSlice(o, LessStatus) : o \in MapOrders(StatusGroups(issues))}

AssigneeName(issue) ==
    IF issue.assignee.present
    THEN IF issue.assignee.displayName # "" THEN issue.assignee.displayName
         ELSE issue.assignee.name
    ELSE "Unassigned"

\* a variant that sorts by member count alone
LessAssigneeByCount(a, b) == Len(a.issues) > Len(b.issues)

LessAssignee(a, b) ==
    IF a.name = "Unassigned" THEN FALSE
    ELSE IF b.name = "Unassigned" THEN TRUE
    ELSE Len(a.issues) > Len(b.issues)

AssigneeGroups(issues) ==
    LET names == Distinct([i \in 1..Len(issues) |-> AssigneeName(issues[i])])
    IN  [k \in 1..Len(names) |->
            [name |-> names[k],
             issues |-> SelectSeq(issues, LAMBDA x : AssigneeName(x) = names[k])]]

\* the results groupByAssignee can return
groupByAssignee(issues) ==
    {SortSlice(o, LessAssignee) : o \in MapOrders(AssigneeGroups(issues))}

(***************************************************************************)
(* Reports.                                                                *)
(***************************************************************************)
Line(emoji, id, title, who) ==
    [title |-> title, identifier |-> id, emoji |-> emoji, who |-> who, more |-> 0]
MoreLine(n) == [title |-> <<>>, identifier |-> 0, emoji |-> "", who |-> "", more |-> n]

getPriorityEmoji(priority) ==
    CASE priority = 1 -> "red"
      [] priority = 2 -> "orange"
      [] priority = 3 -> "yellow"
      [] priority = 4 -> "green"
      [] OTHER -> "white"

NoIssuesEmbed ==
    Embed("Linear Daily Digest: No open issues found", <<>>, ColorGreen)

\* a variant that sends the embed twice in one message
sendNoIssuesReportTwice(outcome) ==
    sendToDiscord(Payload("Linear Daily Digest", <<NoIssuesEmbed, NoIssuesEmbed>>), outcome)

sendNoIssuesReport(outcome) ==
    sendToDiscord(Payload("Linear Daily Digest", <<NoIssuesEmbed>>), outcome)

\* a variant that counts every priority up to p
RECURSIVE CountPriorityAtMost(_, _)
CountPriorityAtMost(issues, p) ==
    IF issues = <<>> THEN 0
    ELSE (IF Head(issues).priority <= p THEN 1 ELSE 0)
         + CountPriorityAtMost(Tail(issues), p)

\* the loop of sendReport that counts the issues of priority p
RECURSIVE CountPriority(_, _)
CountPriority(issues, p) ==
    IF issues = <<>> THEN 0
    ELSE (IF Head(issues).priority = p THEN 1 ELSE 0) + CountPriority(Tail(issues), p)

getStateEmoji(stateType) ==
    CASE stateType = "backlog" -> "inbox"
      [] stateType = "unstarted" -> "white"
      [] stateType = "started" -> "blue"
      [] stateType = "completed" -> "check"
      [] stateType = "canceled" -> "cross"
      [] OTHER -> "clipboard"

\* the lines "emoji **name**: count" of the summary embed
GroupLine(emoji, name, count) == [name |-> name, count |-> count, emoji |-> emoji]
StatusLines(byStatus) ==
    [k \in 1..Len(byStatus) |->
        GroupLine(getStateEmoji(byStatus[k].type), byStatus[k].name,
                  Len(byStatus[k].issues))]
AssigneeLines(groups) ==
    [k \in 1..Len(groups) |->
        GroupLine(IF groups[k].name = "Unassigned" THEN "question" ELSE "person",
                  groups[k].name, Len(groups[k].issues))]

\* a variant that lists every issue of priority <= 2
RECURSIVE priorityIssuesNoCap(_, _)
priorityIssuesNoCap(issues, acc) ==
    IF issues = <<>> THEN acc
    ELSE LET issue == Head(issues)
             line == Line(IF issue.priority = 2 THEN "orange" ELSE "red",
                          issue.identifier, truncate(issue.title, 40),
                          IF issue.assignee.present THEN issue.assignee.name
                          ELSE "Unassigned")
         IN  priorityIssuesNoCap(Tail(issues),
                 IF issue.priority <= 2 THEN Append(acc, line) ELSE acc)

RECURSIVE priorityIssues(_, _)
priorityIssues(issues, acc) ==
    IF issues = <<>> THEN acc
    ELSE LET issue == Head(issues)
             line == Line(IF issue.priority = 2 THEN "orange" ELSE "red",
                          issue.identifier, truncate(issue.title, 40),
                          IF issue.assignee.present THEN issue.assignee.name
                          ELSE "Unassigned")
         IN  priorityIssues(Tail(issues),
                 IF issue.priority <= 2 /\ Len(acc) < 10 THEN Append(acc, line) ELSE acc)

\* a variant that also lists an issue updated at the very start of the day
RECURSIVE recentIssuesFromMidnight(_, _, _)
recentIssuesFromMidnight(issues, today, acc) ==
    IF issues = <<>> THEN acc
    ELSE LET issue == Head(issues)
             line == Line("", issue.identifier, truncate(issue.title, 50), "")
         IN  recentIssuesFromMidnight(Tail(issues), today,
                 IF issue.updatedAt >= today /\ Len(acc) < 5 THEN Append(acc, line)
                 ELSE acc)

RECURSIVE recentIssues(_, _, _)
recentIssues(issues, today, acc) ==
    IF issues = <<>> THEN acc
    ELSE LET issue == Head(issues)
             line == Line("", issue.identifier, truncate(issue.title, 50), "")
         IN  recentIssues(Tail(issues), today,
                 IF issue.updatedAt > today /\ Len(acc) < 5 THEN Append(acc, line) ELSE acc)

\* the embeds of sendReport; now is time.Now() in hours
reportEmbeds(issues, byStatus, byAssigneeGroups, now) ==
    LET urgentCount == CountPriority(issues, 1)
        highCount == CountPriority(issues, 2)
        mainEmbed == [Embed("Linear Daily Digest", <<>>, ColorBlue)
                      EXCEPT !.count = Len(issues), !.urgent = urgentCount,
                             !.high = highCount,
                             !.statusLines = StatusLines(byStatus),
                             !.assigneeLines = AssigneeLines(byAssigneeGroups),
                             !.timestamp = now]
        prio == IF urgentCount > 0 \/ highCount > 0 THEN priorityIssues(issues, <<>>)
                ELSE <<>>
        today == now - (now % 24)
        recent == recentIssues(issues, today, <<>>)
    IN  <<mainEmbed>>
        \o (IF Len(prio) > 0
            THEN <<[Embed("Priority Issues", <<>>, ColorRed) EXCEPT !.lines = prio]>>
            ELSE <<>>)
        \o (IF Len(recent) > 0
            THEN <<[Embed("Recently Updated", <<>>, ColorYellow) EXCEPT !.lines = recent]>>
            ELSE <<>>)

\* a variant that delivers every embed in a message of its own
sendReportPerEmbed(issues, byStatus, byAssigneeGroups, now, outcome) ==
    LET es == reportEmbeds(issues, byStatus, byAssigneeGroups, now)
    IN  [posts |-> [k \in 1..Len(es) |->
                       sendToDiscord(Payload("Linear Daily Digest", <<es[k]>>),
                                     outcome).posts[1]],
         err |-> sendToDiscord(Payload("Linear Daily Digest", es), outcome).err]

sendReport(issues, byStatus, byAssigneeGroups, now, outcome) ==
    sendToDiscord(Payload("Linear Daily Digest",
                          reportEmbeds(issues, byStatus, byAssigneeGroups, now)),
                  outcome)

headerEmbed(issues, groups) ==
    [Embed("Open Tasks by User", <<>>, ColorBlue)
     EXCEPT !.count = Len(issues), !.groups = Len(groups)]

\* a variant that lists one issue more before the "more" line
RECURSIVE taskLinesOffByOne(_, _, _)
taskLinesOffByOne(issues, i, acc) ==
    IF i >= Len(issues) THEN acc
    ELSE IF i > TaskLimit THEN Append(acc, MoreLine(Len(issues) - TaskLimit))
    ELSE taskLinesOffByOne(issues, i + 1,
             Append(acc, Line(getPriorityEmoji(issues[i + 1].priority),
                              issues[i + 1].identifier,
                              truncate(issues[i + 1].title, 50), "")))

\* the lines of one assignee: the loop over group.Issues from index i (from 0)
RECURSIVE taskLines(_, _, _)
taskLines(issues, i, acc) ==
    IF i >= Len(issues) THEN acc
    ELSE IF i >= TaskLimit THEN Append(acc, MoreLine(Len(issues) - TaskLimit))
    ELSE taskLines(issues, i + 1,
             Append(acc, Line(getPriorityEmoji(issues[i + 1].priority),
                              issues[i + 1].identifier,
                              truncate(issues[i + 1].title, 50), "")))

userEmbed(group) ==
    [Embed("tasks", <<>>, ColorGray)
     EXCEPT !.name = group.name, !.count = Len(group.issues),
            !.lines = taskLines(group.issues, 0, <<>>)]

\* a variant of the loop below that sends a batch one embed late
RECURSIVE userLoopLate(_, _, _)
userLoopLate(groups, idx, es) ==
    IF idx > Len(groups) THEN [groupIdx |-> idx, embeds |-> es, flush |-> FALSE]
    ELSE LET es2 == Append(es, userEmbed(groups[idx]))
         IN  IF Len(es2) > EmbedBatch
             THEN [groupIdx |-> idx + 1, embeds |-> es2, flush |-> TRUE]
             ELSE userLoopLate(groups, idx + 1, es2)

\* The range loop of generateUserTasksReport from group idx on, with the
\* embeds collected so far, up to its next sendToDiscord (flush) or its end.
RECURSIVE userLoopBody(_, _, _)
userLoopBody(groups, idx, es) ==
    IF idx > Len(groups) THEN [groupIdx |-> idx, embeds |-> es, flush |-> FALSE]
    ELSE LET es2 == Append(es, userEmbed(groups[idx]))
         IN  IF Len(es2) >= EmbedBatch
             THEN [groupIdx |-> idx + 1, embeds |-> es2, flush |-> TRUE]
             ELSE userLoopBody(groups, idx + 1, es2)

userLoop(groups, idx, es) == userLoopBody(groups, idx, es)

(***************************************************************************)
(* The server.                                                             *)
(***************************************************************************)
Request(endpoint, method, readOK, body) ==
    [body |-> body, method |-> method, readOK |-> readOK, endpoint |-> endpoint]
NoBody == Body("invalid", "", "", Data("absent", <<>>))
NoRequest == Request("", "", TRUE, NoBody)

Nows == {47, 49}

\* main: the webhook URL is required, the API key is not
\* net/http serves every connection in a goroutine of its own
Goroutines == 1..MaxRequests
IdleGoroutine ==
    [pc |-> "idle", req |-> NoRequest, resp |-> NoResp, posts |-> <<>>, answers |-> <<>>]

\* the locals of one handler call: webhook and discordPayload of
\* handleLinearWebhook, allIssues and cursor of fetchAllOpenIssues
NoLocals ==
    [allIssues |-> <<>>, cursor |-> "",
     webhook |-> UnmarshalEnvelope(NoBody).webhook, discordPayload |-> NoPayload]

InitIn(envs) ==
    /\ linearAPIKey \in {"", "lin_api_key"}
    /\ discordWebhookURL = "https://discord.example/api/webhooks/1"
    /\ env \in envs
    /\ pc = "idle"
    /\ req = NoRequest
    /\ resp = NoResp
    /\ allIssues = <<>>
    /\ cursor = ""
    /\ queries = <<>>
    /\ nQueries = 0
    /\ byAssignee = <<>>
    /\ groupIdx = 1
    /\ embeds = <<>>
    /\ posts = <<>>
    /\ sends = <<>>
    /\ sleeps = <<>>
    /\ goroutines = [g \in Goroutines |-> IdleGoroutine]
    /\ frames = [g \in Goroutines |-> NoLocals]

Init == InitIn(Envs)

Config == <<linearAPIKey, discordWebhookURL, env>>
Concurrent == <<goroutines, frames>>

\* a request arrives at the idle server, where the locals of the handlers
\* and the logs are empty
Arrive(r) ==
    /\ pc = "idle"
    /\ req' = r
    /\ UNCHANGED <<Config, Concurrent, allIssues, cursor, queries, nQueries, byAssignee, groupIdx,
                   embeds, sleeps>>

\* the handler returns having made no outbound request
Answer(r, response) ==
    /\ Arrive(r)
    /\ resp' = response
    /\ posts' = <<>>
    /\ sends' = <<>>
    /\ pc' = "done"

HandleRoot ==
    \E path \in {"/", "/favicon.ico"}, method \in Methods :
        Answer(Request(path, method, TRUE, NoBody),
               IF path # "/" THEN HttpError("404 page not found", StatusNotFound)
               ELSE JsonOK("Linear-Discord Communication Relay"))

HandleHealth ==
    \E method \in Methods :
        Answer(Request("/health", method, TRUE, NoBody), JsonOK("ok"))

ServeWebhook(bodies) ==
    \E method \in Methods, readOK \in BOOLEAN, body \in bodies, outcome \in PostOutcomes :
        LET h == handleLinearWebhook(method, readOK, body, outcome)
        IN  /\ Arrive(Request("/webhook", method, readOK, body))
            /\ resp' = h.resp
            /\ posts' = h.posts
            /\ sends' = h.sends
            /\ pc' = "done"

HandleLinearWebhook == ServeWebhook(Bodies)

\* handleReport and handleReportByUser up to their call of fetchAllOpenIssues
\* a variant that starts the fetch without an API key
StartReportNoKeyCheck(endpoint) ==
    \E method \in Methods :
        /\ Arrive(Request(endpoint, method, TRUE, NoBody))
        /\ resp' = NoResp
        /\ posts' = <<>>
        /\ sends' = <<>>
        /\ pc' = "fetch"

StartReport(endpoint) ==
    \E method \in Methods :
        IF linearAPIKey = ""
        THEN Answer(Request(endpoint, method, TRUE, NoBody),
                    HttpError("LINEAR_API_KEY not configured", StatusServiceUnavailable))
        ELSE /\ Arrive(Request(endpoint, method, TRUE, NoBody))
             /\ resp' = NoResp
             /\ posts' = <<>>
             /\ sends' = <<>>
             /\ pc' = "fetch"

HandleReport == StartReport("/report")

HandleReportByUser == StartReport("/report/by-user")

\* the handler's answer to the error or nil of its report
ReportAnswer(err, msg, okText) ==
    IF err THEN HttpError(msg, StatusInternalServerError) ELSE JsonOK(okText)

\* one iteration of the loop of fetchAllOpenIssues; on an error the report
\* function returns it and the handler answers
FetchPage ==
    /\ pc = "fetch"
    /\ \E answer \in UpstreamAnswers(env) :
        /\ answer.kind = "page" /\ answer.nodes # <<>>
              => Len(allIssues) + Len(answer.nodes) <= Upstream(env).maxIssues
        /\ answer.kind = "page" /\ answer.hasNextPage
              => Upstream(env).maxPages = 0 \/ nQueries + 1 < Upstream(env).maxPages
        /\ LET f == fetchStep(allIssues, cursor, answer)
           IN  /\ queries' = IF Len(queries) < MaxPages
                             THEN Append(queries, [answer |-> answer,
                                                   variables |-> Variables(cursor)])
                             ELSE queries
               /\ nQueries' = Min(nQueries + 1, MaxPages + 1)
               /\ allIssues' = f.allIssues
               /\ cursor' = f.cursor
               /\ resp' = IF f.err THEN ReportAnswer(TRUE, "failed to fetch issues", "")
                          ELSE resp
               /\ pc' = IF f.err THEN "done"
                        ELSE IF ~f.done THEN "fetch"
                        ELSE IF req.endpoint = "/report" THEN "report" ELSE "users"
    /\ UNCHANGED <<Config, Concurrent, req, byAssignee, groupIdx, embeds, posts, sends, sleeps>>

\* generateAndSendReport after the fetch, and the answer of handleReport
GenerateAndSendReport ==
    /\ pc = "report"
    /\ \E byStatus \in groupByStatus(allIssues), groups \in groupByAssignee(allIssues),
          now \in Nows, outcome \in PostOutcomes :
        LET s == IF Len(allIssues) = 0 THEN sendNoIssuesReport(outcome)
                 ELSE sendReport(allIssues, byStatus, groups, now, outcome)
        IN  /\ posts' = posts \o s.posts
            /\ sends' = Append(sends, Sent(s))
            /\ resp' = ReportAnswer(s.err, "discord returned an error", "report_sent")
    /\ pc' = "done"
    /\ UNCHANGED <<Config, Concurrent, req, allIssues, cursor, queries, nQueries, byAssignee,
                   groupIdx, embeds, sleeps>>

\* generateUserTasksReport after the fetch, up to the range loop
BeginUserReport ==
    /\ pc = "users"
    /\ IF Len(allIssues) = 0
       THEN \E outcome \in PostOutcomes :
               LET s == sendNoIssuesReport(outcome)
               IN  /\ posts' = posts \o s.posts
                   /\ sends' = Append(sends, Sent(s))
                   /\ resp' = ReportAnswer(s.err, "discord returned an error",
                                           "user_report_sent")
                   /\ pc' = "done"
                   /\ UNCHANGED <<byAssignee, embeds>>
       ELSE \E groups \in groupByAssignee(allIssues) :
               /\ byAssignee' = groups
               /\ embeds' = <<headerEmbed(allIssues, groups)>>
               /\ pc' = "loop"
               /\ UNCHANGED <<posts, sends, resp>>
    /\ groupIdx' = 1
    /\ UNCHANGED <<Config, Concurrent, req, allIssues, cursor, queries, nQueries, sleeps>>

\* a variant that goes on with the next batch when a delivery has failed
FlushBatchIgnoreErrors ==
    /\ pc = "loop"
    /\ LET l == userLoop(byAssignee, groupIdx, embeds)
       IN  /\ l.flush
           /\ \E outcome \in PostOutcomes :
               LET s == sendToDiscord(Payload("Linear Task Report", l.embeds), outcome)
               IN  /\ posts' = posts \o s.posts
                   /\ sends' = Append(sends, Sent(s))
                   /\ groupIdx' = l.groupIdx
                   /\ embeds' = <<>>
                   /\ pc' = "sleep"
    /\ UNCHANGED <<Config, Concurrent, req, resp, allIssues, cursor, queries, nQueries,
                   byAssignee, sleeps>>

\* the range loop up to and with the sendToDiscord of a full batch
FlushBatch ==
    /\ pc = "loop"
    /\ LET l == userLoop(byAssignee, groupIdx, embeds)
       IN  /\ l.flush
           /\ \E outcome \in PostOutcomes :
               LET s == sendToDiscord(Payload("Linear Task Report", l.embeds), outcome)
               IN  /\ posts' = posts \o s.posts
                   /\ sends' = Append(sends, Sent(s))
                   /\ groupIdx' = l.groupIdx
                   /\ embeds' = IF s.err THEN l.embeds ELSE <<>>
                   /\ resp' = IF s.err
                              THEN ReportAnswer(TRUE, "discord returned an error", "")
                              ELSE resp
                   /\ pc' = IF s.err THEN "done" ELSE "sleep"
    /\ UNCHANGED <<Config, Concurrent, req, allIssues, cursor, queries, nQueries, byAssignee, sleeps>>

\* time.Sleep(500 * time.Millisecond) after a batch
Sleep ==
    /\ pc = "sleep"
    /\ sleeps' = Append(sleeps, [millis |-> SleepMillis, after |-> Len(posts)])
    /\ pc' = "loop"
    /\ UNCHANGED <<Config, Concurrent, req, resp, allIssues, cursor, queries, nQueries, byAssignee,
                   groupIdx, embeds, posts, sends>>

\* the rest of the range loop, the remaining embeds, and the answer
SendRemaining ==
    /\ pc = "loop"
    /\ LET l == userLoop(byAssignee, groupIdx, embeds)
       IN  /\ ~l.flush
           /\ groupIdx' = l.groupIdx
           /\ embeds' = l.embeds
           /\ IF Len(l.embeds) > 0
              THEN \E outcome \in PostOutcomes :
                      LET s == sendToDiscord(Payload("Linear Task Report", l.embeds),
                                             outcome)
                      IN  /\ posts' = posts \o s.posts
                          /\ sends' = Append(sends, Sent(s))
                          /\ resp' = ReportAnswer(s.err, "discord returned an error",
                                                  "user_report_sent")
              ELSE /\ resp' = ReportAnswer(FALSE, "", "user_report_sent")
                   /\ UNCHANGED <<posts, sends>>
    /\ pc' = "done"
    /\ UNCHANGED <<Config, Concurrent, req, allIssues, cursor, queries, nQueries, byAssignee, sleeps>>

\* the response is out and the handler has returned: its locals are gone,
\* and the server waits for the next request
NextRequest ==
    /\ pc = "done"
    /\ pc' = "idle"
    /\ req' = NoRequest
    /\ resp' = NoResp
    /\ allIssues' = <<>>
    /\ cursor' = ""
    /\ queries' = <<>>
    /\ nQueries' = 0
    /\ byAssignee' = <<>>
    /\ groupIdx' = 1
    /\ embeds' = <<>>
    /\ posts' = <<>>
    /\ sends' = <<>>
    /\ sleeps' = <<>>
    /\ UNCHANGED <<Config, Concurrent>>

Next ==
    \/ HandleRoot
    \/ HandleHealth
    \/ HandleLinearWebhook
    \/ HandleReport
    \/ HandleReportByUser
    \/ FetchPage
    \/ GenerateAndSendReport
    \/ BeginUserReport
    \/ FlushBatch
    \/ Sleep
    \/ SendRemaining
    \/ NextRequest

Spec == Init /\ [][Next]_vars

\* The server with events and issues whose texts are around the budgets of
\* truncate.
HandleLongWebhook == ServeWebhook(LongBodies)

TextInit == InitIn({"titles"})

TextNext ==
    \/ HandleLongWebhook
    \/ HandleReport
    \/ FetchPage
    \/ GenerateAndSendReport
    \/ NextRequest

TextSpec == TextInit /\ [][TextNext]_vars

(***************************************************************************)
(* Requests served concurrently.  Each goroutine runs one handler call; a  *)
(* step is the code between two points where another goroutine may run.    *)
(***************************************************************************)
Sequential == <<pc, req, resp, allIssues, cursor, queries, nQueries, byAssignee,
                groupIdx, embeds, posts, sends, sleeps>>

\* a variant where the locals of the handlers are package-level variables
FrameShared(g) == 1

\* the locals of a call live in the frame of the goroutine that makes it
Frame(g) == g

ConcBodies ==
    {Body("object", "Issue", "create", Data("object", <<104, 105>>)),
     Body("object", "Comment", "create", Data("object", <<104, 105>>)),
     Body("invalid", "", "", Data("absent", <<>>))}
ConcRequests ==
    {Request("/webhook", "POST", TRUE, b) : b \in ConcBodies}
    \cup {Request("/webhook", "GET", TRUE, NoBody), Request("/report", "GET", TRUE, NoBody)}
ConcOutcomes == {Status(204), Status(500)}
ConcAnswers == {a \in UpstreamAnswers("pair") : a.kind = "page" \/ a = Failure("status")}

Return(g, response, sent) ==
    goroutines' = [goroutines EXCEPT ![g].pc = "done", ![g].resp = response,
                                     ![g].posts = sent]
Goto(g, label) == goroutines' = [goroutines EXCEPT ![g].pc = label]

\* the server accepts a request and starts a goroutine for it
Accept(g) ==
    /\ goroutines[g].pc = "idle"
    /\ \E r \in ConcRequests :
        goroutines' = [goroutines EXCEPT ![g].req = r,
                           ![g].pc = IF r.endpoint = "/webhook" THEN "decode" ELSE "start"]
    /\ UNCHANGED <<Config, Sequential, frames>>

\* handleLinearWebhook up to json.Unmarshal(body, &webhook)
GoDecode(g) ==
    /\ goroutines[g].pc = "decode"
    /\ LET r == goroutines[g].req
           u == UnmarshalEnvelope(r.body)
       IN  IF r.method # "POST"
           THEN /\ Return(g, HttpError("Method not allowed", StatusMethodNotAllowed), <<>>)
                /\ UNCHANGED frames
           ELSE IF ~r.readOK
           THEN /\ Return(g, HttpError("Error reading request", StatusBadRequest), <<>>)
                /\ UNCHANGED frames
           ELSE IF u.err
           THEN /\ Return(g, HttpError("Invalid JSON", StatusBadRequest), <<>>)
                /\ UNCHANGED frames
           ELSE /\ frames' = [frames EXCEPT ![Frame(g)].webhook = u.webhook]
                /\ Goto(g, "transform")
    /\ UNCHANGED <<Config, Sequential>>

\* discordPayload, err := transformWebhookToDiscord(webhook)
GoTransform(g) ==
    /\ goroutines[g].pc = "transform"
    /\ LET t == transformWebhookToDiscord(frames[Frame(g)].webhook)
       IN  IF t.err
           THEN /\ Return(g, HttpError("Error processing webhook",
                                       StatusInternalServerError), <<>>)
                /\ UNCHANGED frames
           ELSE IF t.payload = NoPayload
           THEN /\ Return(g, EmptyOK, <<>>)
                /\ UNCHANGED frames
           ELSE /\ frames' = [frames EXCEPT ![Frame(g)].discordPayload = t.payload]
                /\ Goto(g, "send")
    /\ UNCHANGED <<Config, Sequential>>

\* sendToDiscord(discordPayload) and the response
GoSend(g) ==
    /\ goroutines[g].pc = "send"
    /\ \E outcome \in ConcOutcomes :
        LET s == sendToDiscord(frames[Frame(g)].discordPayload, outcome)
        IN  Return(g, IF s.err
                      THEN HttpError("Error forwarding to Discord",
                                     StatusInternalServerError)
                      ELSE JsonOK("forwarded"),
                   s.posts)
    /\ UNCHANGED <<Config, Sequential, frames>>

\* handleReport up to the first page request of fetchAllOpenIssues
GoStartReport(g) ==
    /\ goroutines[g].pc = "start"
    /\ IF linearAPIKey = ""
       THEN /\ Return(g, HttpError("LINEAR_API_KEY not configured",
                                   StatusServiceUnavailable), <<>>)
            /\ UNCHANGED frames
       ELSE /\ frames' = [frames EXCEPT ![Frame(g)].allIssues = <<>>,
                                        ![Frame(g)].cursor = ""]
            /\ Goto(g, "fetch")
    /\ UNCHANGED <<Config, Sequential>>

\* one iteration of the loop of fetchAllOpenIssues
GoFetchPage(g) ==
    /\ goroutines[g].pc = "fetch"
    /\ \E answer \in ConcAnswers :
        /\ answer.hasNextPage => Len(goroutines[g].answers) + 1 < PairEnv.maxPages
        /\ LET f == fetchStep(frames[Frame(g)].allIssues, frames[Frame(g)].cursor, answer)
           IN  /\ frames' = [frames EXCEPT ![Frame(g)].allIssues = f.allIssues,
                                           ![Frame(g)].cursor = f.cursor]
               /\ goroutines' =
                      [goroutines EXCEPT
                           ![g].answers = Append(@, answer),
                           ![g].resp = IF f.err
                                       THEN ReportAnswer(TRUE, "failed to fetch issues", "")
                                       ELSE @,
                           ![g].pc = IF f.err THEN "done"
                                     ELSE IF f.done THEN "report" ELSE "fetch"]
    /\ UNCHANGED <<Config, Sequential>>

\* generateAndSendReport after the fetch, and the response of handleReport
GoReport(g) ==
    /\ goroutines[g].pc = "report"
    /\ LET issues == frames[Frame(g)].allIssues
       IN  \E byStatus \in groupByStatus(issues), groups \in groupByAssignee(issues),
              now \in Nows, outcome \in ConcOutcomes :
               LET s == IF Len(issues) = 0 THEN sendNoIssuesReport(outcome)
                        ELSE sendReport(issues, byStatus, groups, now, outcome)
               IN  Return(g, ReportAnswer(s.err, "discord returned an error",
                                          "report_sent"),
                          s.posts)
    /\ UNCHANGED <<Config, Sequential, frames>>

ConcInit == InitIn({"pair"})

ConcNext ==
    \E g \in Goroutines :
        \/ Accept(g)
        \/ GoDecode(g)
        \/ GoTransform(g)
        \/ GoSend(g)
        \/ GoStartReport(g)
        \/ GoFetchPage(g)
        \/ GoReport(g)

ConcSpec == ConcInit /\ [][ConcNext]_vars

\* What a request produces when its handler runs alone: the response and
\* the POSTs of handleLinearWebhook, and those of handleReport on the
\* answers of the upstream API.
Produced(response, sent) == [resp |-> response, posts |-> sent]

RECURSIVE fetchAllOpenIssues(_, _, _)
fetchAllOpenIssues(answers, issues, c) ==
    IF answers = <<>>
    THEN [allIssues |-> issues, err |-> FALSE]
    ELSE LET f == fetchStep(issues, c, Head(answers))
         IN  IF f.err \/ f.done
             THEN [allIssues |-> f.allIssues, err |-> f.err]
             ELSE fetchAllOpenIssues(Tail(answers), f.allIssues, f.cursor)

handleReport(key, answers) ==
    LET f == fetchAllOpenIssues(answers, <<>>, "")
    IN  IF key = ""
        THEN {Produced(HttpError("LINEAR_API_KEY not configured",
                                 StatusServiceUnavailable), <<>>)}
        ELSE IF f.err
        THEN {Produced(ReportAnswer(TRUE, "failed to fetch issues", ""), <<>>)}
        ELSE {LET s == IF Len(f.allIssues) = 0 THEN sendNoIssuesReport(outcome)
                       ELSE sendReport(f.allIssues, byStatus, groups, now, outcome)
              IN  Produced(ReportAnswer(s.err, "discord returned an error",
                                        "report_sent"), s.posts) :
                  byStatus \in groupByStatus(f.allIssues),
                  groups \in groupByAssignee(f.allIssues),
                  now \in Nows, outcome \in ConcOutcomes}

Alone(r, key, answers) ==
    IF r.endpoint = "/webhook"
    THEN {LET h == handleLinearWebhook(r.method, r.readOK, r.body, outcome)
          IN  Produced(h.resp, h.posts) : outcome \in ConcOutcomes}
    ELSE handleReport(key, answers)

\* A handler that has started runs on: the goroutine that serves the request
\* is scheduled while it is in the loop of fetchAllOpenIssues.
FairSpec == Spec /\ WF_vars(FetchPage)

(***************************************************************************)
(* Properties.                                                             *)
(***************************************************************************)
Is2xx(outcome) == outcome.completed /\ outcome.status >= 200 /\ outcome.status <= 299

\* the handler of a /webhook request has returned, having read the body
WebhookDone == pc = "done" /\ req.endpoint = "/webhook" /\ req.method = "POST" /\ req.readOK

\* the handler of a report request has returned after a fetch that succeeded
ReportEndpoints == {"/report", "/report/by-user"}
FetchedAll ==
    /\ pc = "done"
    /\ req.endpoint \in ReportEndpoints
    /\ linearAPIKey # ""
    /\ resp # ReportAnswer(TRUE, "failed to fetch issues", "")

\* the numbers of embeds of the POSTs made so far
Sizes == [i \in 1..Len(posts) |-> Len(posts[i].embeds)]

\* C1: a /webhook request whose body is an envelope of type Issue, Comment
\* or Project with data that parses makes exactly one POST to the Discord
\* webhook, with exactly one embed, and is answered "forwarded" only if that
\* POST returned a 2xx status.
C1_ForwardedExactlyOnce ==
    (/\ WebhookDone
     /\ req.body.json = "object"
     /\ req.body.type \in KnownTypes
     /\ req.body.data.json \in {"null", "object"})
    => /\ Len(posts) = 1
       /\ Len(posts[1].embeds) = 1
       /\ resp.body = "forwarded" => Is2xx(posts[1].outcome)

C1_Witness ==
    /\ WebhookDone
    /\ req.body.type = "Comment"
    /\ req.body.data.json = "object"
    /\ resp.body = "forwarded"
    /\ Len(posts) = 1
    /\ posts[1].outcome = Status(299)

\* C2: for an envelope whose type is not Issue, Comment or Project the
\* transformer returns no payload and no error, the handler makes no POST
\* and answers 200.
C2_UnknownTypeDropped ==
    (/\ WebhookDone
     /\ req.body.json = "object"
     /\ req.body.type \notin KnownTypes)
    => /\ transformWebhookToDiscord(UnmarshalEnvelope(req.body).webhook)
              = Transformed(FALSE, NoPayload)
       /\ posts = <<>>
       /\ sends = <<>>
       /\ resp.status = 200

C2_Witness ==
    /\ WebhookDone
    /\ req.body.json = "object"
    /\ req.body.type = "Cycle"
    /\ req.body.data.json = "object"
    /\ resp = EmptyOK
    /\ posts = <<>>

\* C3: every call of sendToDiscord makes exactly one POST, and returns nil
\* exactly when that POST completed with a status in 200..299.
C3_OnePostPerSend ==
    /\ Len(posts) = Len(sends)
    /\ \A i \in 1..Len(sends) :
        /\ sends[i].nposts = 1
        /\ ~sends[i].err <=> Is2xx(posts[i].outcome)

C3_Witness ==
    /\ Len(sends) = 2
    /\ ~sends[1].err
    /\ posts[1].outcome = Status(200)
    /\ sends[2].err
    /\ posts[2].outcome = Status(300)

\* C4: a POST to /webhook whose body is not a well-formed event envelope is
\* answered with a 4xx status and no POST to the Discord webhook is made.
C4_MalformedBodyRejected ==
    (WebhookDone /\ ~WellFormedEnvelope(req.body))
    => /\ resp.status >= 400 /\ resp.status <= 499
       /\ posts = <<>>

\* C5: when the envelope parses and its type is Issue, Comment or Project
\* but its data does not parse as the payload of that type, the transformer
\* returns an error, the handler answers 500 and makes no POST.
C5_BadDataIsServerError ==
    (/\ WebhookDone
     /\ req.body.json = "object"
     /\ req.body.type \in KnownTypes
     /\ req.body.data.json \in {"absent", "nonobject", "mistyped"})
    => /\ transformWebhookToDiscord(UnmarshalEnvelope(req.body).webhook).err
       /\ resp.status = 500
       /\ posts = <<>>
       /\ sends = <<>>

C5_Witness ==
    /\ WebhookDone
    /\ req.body.type = "Project"
    /\ req.body.data.json = "mistyped"
    /\ resp.status = 500
    /\ posts = <<>>

\* C6: when a page request fails, at the first page or a later one, it is
\* the last page request, the handler answers with a 5xx status, the issues
\* fetched before are dropped and nothing is sent to the Discord webhook.
\* (queries holds every page request while nQueries <= MaxPages.)
C6_FetchFailureEndsReport ==
    \A i \in 1..Len(queries) :
        (nQueries <= MaxPages /\ queries[i].answer.kind # "page")
        => /\ i = Len(queries)
           /\ pc = "done"
           /\ resp.status >= 500 /\ resp.status <= 599
           /\ allIssues = <<>>
           /\ posts = <<>>
           /\ sends = <<>>
           /\ sleeps = <<>>

C6_Witness ==
    /\ Len(queries) = 2
    /\ queries[1].answer.kind = "page"
    /\ queries[1].answer.nodes = <<IssueB, IssueC>>
    /\ queries[2].answer.kind = "errors"
    /\ req.endpoint = "/report/by-user"
    /\ resp.status = 500

\* C7: when the fetch returns no issue, the summary report and the
\* per-assignee report each make exactly one POST, whose only embed is the
\* "no issues" embed, and nothing else is sent.
C7_NoIssuesOneMessage ==
    (FetchedAll /\ allIssues = <<>>)
    => /\ Len(posts) = 1
       /\ Len(sends) = 1
       /\ posts[1].embeds = <<NoIssuesEmbed>>
       /\ sleeps = <<>>

C7_Witness ==
    /\ FetchedAll
    /\ allIssues = <<>>
    /\ req.endpoint = "/report/by-user"
    /\ nQueries = 2
    /\ resp = JsonOK("user_report_sent")
    /\ Len(posts) = 1

\* C8: the first page request carries no cursor; each later one carries the
\* end cursor of the page before it (none when that end cursor is empty) and
\* follows a page that announced a next page; the fetch ends at the first
\* page that announces none; the issues collected are those of the pages
\* requested, page after page, each once.
\* (queries holds every page request while nQueries <= MaxPages.)
C8_CursorPagination ==
    nQueries <= MaxPages
    => /\ Len(queries) = nQueries
       /\ \A k \in 1..Len(queries) :
            LET prev == IF k = 1 THEN "" ELSE queries[k - 1].answer.endCursor
            IN  /\ queries[k].variables.hasCursor = (prev # "")
                /\ prev # "" => queries[k].variables.cursor = prev
                /\ k > 1 => /\ queries[k - 1].answer.kind = "page"
                            /\ queries[k - 1].answer.hasNextPage
       /\ (Len(queries) > 0 /\ queries[Len(queries)].answer.kind = "page")
          => /\ allIssues = Flatten([k \in 1..Len(queries) |-> queries[k].answer.nodes])
             /\ queries[Len(queries)].answer.hasNextPage <=> pc = "fetch"

C8_Witness ==
    /\ pc = "report"
    /\ Len(queries) = 3
    /\ ~queries[1].variables.hasCursor
    /\ queries[2].variables = [cursor |-> "c1", hasCursor |-> TRUE]
    /\ queries[3].variables = [cursor |-> "c2", hasCursor |-> TRUE]
    /\ allIssues = <<IssueB, IssueC, IssueA, IssueB, IssueC>>

\* C9: fetchAllOpenIssues terminates after finitely many page requests,
\* whatever the upstream API answers.
C9_FetchTerminates == (pc = "fetch") ~> (pc # "fetch")

\* C10: the per-assignee report sends the header embed and then one embed
\* per assignee group, in the order of the groups, each in exactly one POST;
\* no POST carries more than 10 embeds and every POST but the last carries
\* exactly 10; with 24 groups the POSTs carry 10, 10 and 5 embeds.
C10_Batches ==
    (req.endpoint = "/report/by-user" /\ byAssignee # <<>>)
    => LET n == Len(byAssignee)
           all == <<headerEmbed(allIssues, byAssignee)>>
                  \o [k \in 1..n |-> userEmbed(byAssignee[k])]
           sent == Flatten([i \in 1..Len(posts) |-> posts[i].embeds])
       IN  /\ \A i \in 1..Len(posts) :
                /\ Len(posts[i].embeds) <= 10
                /\ i < Len(posts) => Len(posts[i].embeds) = 10
           /\ Len(sent) <= n + 1
           /\ sent = SubSeq(all, 1, Len(sent))
           /\ (pc = "done" /\ resp = JsonOK("user_report_sent"))
              => /\ sent = all
                 /\ n = 24 => Sizes = <<10, 10, 5>>

C10_Witness ==
    /\ pc = "done"
    /\ req.endpoint = "/report/by-user"
    /\ resp = JsonOK("user_report_sent")
    /\ Len(byAssignee) = 24
    /\ Sizes = <<10, 10, 5>>
    /\ Len(sleeps) = 2

\* C11: in the per-assignee report the deliveries are sequential and the
\* delay is taken between consecutive deliveries only: delay i follows
\* delivery i, a delivery follows the delay after the one before it, and no
\* delay follows the last delivery of the report.
C11_DelayBetweenDeliveriesOnly ==
    req.endpoint = "/report/by-user"
    => /\ Len(posts) <= Len(sleeps) + 1
       /\ \A i \in 1..Len(sleeps) :
            /\ sleeps[i].after = i
            /\ pc = "done" => sleeps[i].after < Len(posts)

\* the embeds of assignee groups among the embeds posted so far
PostedUserEmbeds ==
    {posts[i].embeds[j] : <<i, j>> \in
        {<<i, j>> \in (1..Len(posts)) \X (1..EmbedBatch) :
            j <= Len(posts[i].embeds) /\ posts[i].embeds[j].title = "tasks"}}

\* C12: in the per-assignee report the embed of a group of n issues lists
\* all n issues and no "more" line when n <= 15, and the first 15 issues
\* followed by one line "... and N more" with N = n - 15 when n > 15.
C12_TaskLines ==
    req.endpoint = "/report/by-user"
    => \A e \in PostedUserEmbeds :
        \E k \in 1..Len(byAssignee) :
            LET issues == byAssignee[k].issues
                n == Len(issues)
                listed == IF n <= 15 THEN n ELSE 15
            IN  /\ e.name = byAssignee[k].name
                /\ e.count = n
                /\ Len(e.lines) = IF n <= 15 THEN n ELSE 16
                /\ \A i \in 1..listed :
                    /\ e.lines[i].more = 0
                    /\ e.lines[i].identifier = issues[i].identifier
                /\ n > 15 => /\ e.lines[16] = MoreLine(n - 15)
                             /\ 15 + e.lines[16].more = e.count

C12_Witness ==
    /\ pc = "done"
    /\ req.endpoint = "/report/by-user"
    /\ \E e \in PostedUserEmbeds :
        /\ e.count = 23
        /\ Len(e.lines) = 16
        /\ e.lines[15].identifier = 215
        /\ e.lines[16].more = 8

\* the bucket of a state type, and of the emoji that stands for it in a
\* status line: started, unstarted, backlog, any other
TypeBucket(type) ==
    IF type = "started" THEN 1
    ELSE IF type = "unstarted" THEN 2
    ELSE IF type = "backlog" THEN 3
    ELSE 4
EmojiBucket(emoji) ==
    IF emoji = "blue" THEN 1
    ELSE IF emoji = "white" THEN 2
    ELSE IF emoji = "inbox" THEN 3
    ELSE 4

\* the summary report has fetched its issues, or has been sent
SummaryReport ==
    /\ req.endpoint = "/report"
    /\ pc = "report" \/ (FetchedAll /\ allIssues # <<>>)

\* C13: groupByStatus returns every group of type started before every
\* group of type unstarted, these before every group of type backlog, and
\* these before every group of any other type; the status lines of the
\* summary embed come in that order.
C13_StatusOrder ==
    SummaryReport
    => /\ \A gs \in groupByStatus(allIssues) :
            \A i, j \in 1..Len(gs) :
                i < j => TypeBucket(gs[i].type) <= TypeBucket(gs[j].type)
       /\ \A p \in 1..Len(posts) :
            LET lines == posts[p].embeds[1].statusLines
            IN  \A i, j \in 1..Len(lines) :
                    i < j => EmojiBucket(lines[i].emoji) <= EmojiBucket(lines[j].emoji)

C13_Witness ==
    /\ SummaryReport
    /\ pc = "done"
    /\ allIssues = <<IssueM5, IssueM4, IssueM3, IssueM6, IssueM2, IssueM1>>
    /\ Len(posts) = 1
    /\ LET lines == posts[1].embeds[1].statusLines
       IN  /\ Len(lines) = 5
           /\ lines[1].emoji = "blue"
           /\ lines[2].emoji = "white"
           /\ lines[3].emoji = "inbox"
           /\ lines[4].emoji = "clipboard"
           /\ lines[5].emoji = "check"

\* "Unassigned" last, every other group before it by non-increasing count
AssigneeOrder(names, counts) ==
    \A i, j \in 1..Len(names) :
        /\ names[i] = "Unassigned" => i = Len(names)
        /\ (i < j /\ names[j] # "Unassigned") => counts[i] >= counts[j]

\* C14: groupByAssignee returns the group named "Unassigned", when there is
\* one, in the last position whatever its member count, and every other
\* group before it in non-increasing order of member count; so do the
\* groups of the per-assignee report and the assignee lines of the summary.
C14_AssigneeOrder ==
    /\ (pc \in {"report", "users", "loop", "sleep"} \/ FetchedAll)
       => \A gs \in groupByAssignee(allIssues) :
            AssigneeOrder([k \in 1..Len(gs) |-> gs[k].name],
                          [k \in 1..Len(gs) |-> Len(gs[k].issues)])
    /\ AssigneeOrder([k \in 1..Len(byAssignee) |-> byAssignee[k].name],
                     [k \in 1..Len(byAssignee) |-> Len(byAssignee[k].issues)])
    /\ (req.endpoint = "/report" /\ allIssues # <<>>)
       => \A p \in 1..Len(posts) :
            LET lines == posts[p].embeds[1].assigneeLines
            IN  AssigneeOrder([k \in 1..Len(lines) |-> lines[k].name],
                              [k \in 1..Len(lines) |-> lines[k].count])

C14_Witness ==
    /\ pc = "done"
    /\ req.endpoint = "/report/by-user"
    /\ resp = JsonOK("user_report_sent")
    /\ Len(byAssignee) = 3
    /\ byAssignee[1].name = "Ann" /\ Len(byAssignee[1].issues) = 2
    /\ byAssignee[2].name = "bob" /\ Len(byAssignee[2].issues) = 1
    /\ byAssignee[3].name = "Unassigned" /\ Len(byAssignee[3].issues) = 3

\* the number of the issues fetched that have priority p
WithPriority(p) == Cardinality({i \in 1..Len(allIssues) : allIssues[i].priority = p})

\* C15: the urgent count of the summary report is the number of issues of
\* priority 1 and its high count the number of issues of priority 2; issues
\* of any other priority add to neither.
C15_PriorityCounts ==
    (req.endpoint = "/report" /\ allIssues # <<>>)
    => \A p \in 1..Len(posts) :
        /\ posts[p].embeds[1].count = Len(allIssues)
        /\ posts[p].embeds[1].urgent = WithPriority(1)
        /\ posts[p].embeds[1].high = WithPriority(2)

C15_Witness ==
    /\ pc = "done"
    /\ req.endpoint = "/report"
    /\ [i \in 1..Len(allIssues) |-> allIssues[i].priority] = <<1, 2, 2, 4>>
    /\ Len(posts) = 1
    /\ posts[1].embeds[1].urgent = 1
    /\ posts[1].embeds[1].high = 2

\* s cut to the budget n: s itself, or its first n - 3 bytes and "..."
Expected(s, n) == IF Len(s) <= n THEN s ELSE SubSeq(s, 1, n - 3) \o <<46, 46, 46>>

TruncateLaw(s, n) ==
    /\ truncate(s, n) = Expected(s, n)
    /\ Len(s) > n => Len(truncate(s, n)) = n
    /\ truncate(truncate(s, n), n) = truncate(s, n)

C17_ReportsNeedApiKey ==
    linearAPIKey = ""
    => /\ pc \in {"idle", "done"}
       /\ (pc = "done" /\ req.endpoint \in ReportEndpoints)
          => /\ resp.status = 503
             /\ queries = <<>> /\ nQueries = 0
             /\ posts = <<>> /\ sends = <<>>
       /\ (/\ WebhookDone
           /\ req.body.json = "object"
           /\ req.body.type \in KnownTypes
           /\ req.body.data.json \in {"null", "object"})
          => /\ Len(posts) = 1
             /\ Is2xx(posts[1].outcome) <=> resp = JsonOK("forwarded")

C17_Witness ==
    /\ linearAPIKey = ""
    /\ pc = "done"
    /\ req.endpoint = "/report/by-user"
    /\ resp.status = 503
    /\ queries = <<>>
    /\ posts = <<>>

\* C18: every response of every endpoint is JSON, on success and on error
\* alike, and every error outcome carries a 4xx or 5xx status.
C18_AllResponsesJson ==
    pc = "done"
    => /\ resp.contentType = "application/json"
       /\ resp.status = 200 \/ (resp.status >= 400 /\ resp.status <= 599)

\* C19: handlers of concurrent requests share no mutable state: under every
\* interleaving of the steps of the requests, the response and the outbound
\* payloads of each request that has been answered are those the request
\* produces when it runs alone, given the same answers of the upstream API and of Discord, and the
\* configuration values are never written after startup.
Isolated ==
    \A g \in Goroutines :
        goroutines[g].pc = "done"
        => Produced(goroutines[g].resp, goroutines[g].posts)
               \in Alone(goroutines[g].req, linearAPIKey, goroutines[g].answers)
ConfigReadOnly == UNCHANGED <<linearAPIKey, discordWebhookURL>>
C19_NoSharedState == []Isolated /\ [][ConfigReadOnly]_vars
\* two requests with different payloads were in their handlers at the same
\* time, and both have been answered after a delivery
C19_Witness ==
    /\ \A g \in Goroutines : goroutines[g].pc = "done" /\ goroutines[g].posts # <<>>
    /\ \E g, h \in Goroutines : goroutines[g].posts # goroutines[h].posts

\* C20: for Issue and Project events the embed color is a function of the
\* action alone, the same for both types: create gives the positive color
\* (green), update the caution color (yellow), remove the danger color (red);
\* for Comment events the embed color is the accent color (purple) for every
\* action.
ActionColor(action) ==
    CASE action = "create" -> ColorGreen
      [] action = "update" -> ColorYellow
      [] action = "remove" -> ColorRed
C20_ColorByAction ==
    WebhookDone /\ posts # <<>>
    => LET color == posts[1].embeds[1].color
       IN  /\ req.body.type \in {"Issue", "Project"}
              /\ req.body.action \in {"create", "update", "remove"}
              => color = ActionColor(req.body.action)
           /\ req.body.type = "Comment" => color = ColorPurple

\* the embeds with the given title in the POSTs of the summary report
ReportEmbedsTitled(title) ==
    {posts[p].embeds[j] : <<p, j>> \in
        {<<p, j>> \in (1..Len(posts)) \X (1..3) :
            /\ req.endpoint = "/report"
            /\ j <= Len(posts[p].embeds)
            /\ posts[p].embeds[j].title = title}}

\* C21: the Priority Issues section of the summary report lists only urgent
\* and high-priority issues: every issue it lists has priority 1 or 2, and an
\* issue of priority 0 (no priority), 3 or 4 is never listed in it.
C21_OnlyUrgentAndHigh ==
    \A e \in ReportEmbedsTitled("Priority Issues") :
        \A k \in 1..Len(e.lines), i \in 1..Len(allIssues) :
            allIssues[i].identifier = e.lines[k].identifier
            => allIssues[i].priority \in {1, 2}

\* the identifiers of a list of issues or of lines, in their order
Identifiers(s) == [k \in 1..Len(s) |-> s[k].identifier]
UpToHigh(issue) == issue.priority <= 2
Capped(s, n) == SubSeq(s, 1, IF Len(s) < n THEN Len(s) ELSE n)

StartOfDay(now) == now - (now % 24)
RecentAt(today) ==
    LET UpdatedToday(issue) == issue.updatedAt > today
    IN  Identifiers(SelectSeq(allIssues, UpdatedToday))
C23_RecentSection ==
    (req.endpoint = "/report" /\ allIssues # <<>>)
    => \A p \in 1..Len(posts) :
        LET es == posts[p].embeds
            sections == {j \in 1..Len(es) : es[j].title = "Recently Updated"}
            recent == RecentAt(StartOfDay(es[1].timestamp))
        IN  /\ sections # {} <=> recent # <<>>
            /\ \A j \in sections :
                /\ Identifiers(es[j].lines) = Capped(recent, 5)
                /\ Len(es[j].lines) <= 5

\* more than 5 issues were updated today and the section lists 5 of them
C23_Witness ==
    /\ pc = "done"
    /\ \E e \in ReportEmbedsTitled("Recently Updated") :
        /\ Len(e.lines) = 5
        /\ Len(RecentAt(StartOfDay(posts[1].embeds[1].timestamp))) > 5

\* groups partition issues by keys, keys[i] being the key of issues[i]
RECURSIVE Members(_)
Members(groups) ==
    IF groups = <<>> THEN 0 ELSE Len(Head(groups).issues) + Members(Tail(groups))
Partitions(groups, issues, keys) ==
    /\ \A i \in 1..Len(issues) :
        LET holders == {k \in 1..Len(groups) : issues[i] \in Range(groups[k].issues)}
        IN  /\ Cardinality(holders) = 1
            /\ \A k \in holders : groups[k].name = keys[i]
    /\ \A k \in 1..Len(groups) : groups[k].issues # <<>>
    /\ \A k, l \in 1..Len(groups) : groups[k].name = groups[l].name => k = l
    /\ Members(groups) = Len(issues)
Grouped == req.endpoint \in ReportEndpoints /\ (pc \in {"report", "users"} \/ FetchedAll)

\* C24: groupByStatus and groupByAssignee each partition the fetched issues:
\* every issue is a member of exactly one status group, the one named by its
\* state name, and of exactly one assignee group; no group is empty, group
\* names are pairwise distinct, and the member counts of each grouping sum
\* to the number of fetched issues.
C24_GroupsPartition ==
    Grouped
    => /\ \A byStatus \in groupByStatus(allIssues) :
            Partitions(byStatus, allIssues,
                       [i \in 1..Len(allIssues) |-> allIssues[i].state.name])
       /\ \A groups \in groupByAssignee(allIssues) :
            Partitions(groups, allIssues,
                       [i \in 1..Len(allIssues) |-> AssigneeName(allIssues[i])])
       /\ byAssignee # <<>>
          => Partitions(byAssignee, allIssues,
                        [i \in 1..Len(allIssues) |-> AssigneeName(allIssues[i])])

\* a summary report of issues that fall into several groups of several members
C24_Witness ==
    /\ FetchedAll
    /\ req.endpoint = "/report"
    /\ posts # <<>>
    /\ \E byStatus \in groupByStatus(allIssues) :
        /\ Len(byStatus) >= 3
        /\ \E k \in 1..Len(byStatus) : Len(byStatus[k].issues) >= 2
        /\ StatusLines(byStatus) = posts[1].embeds[1].statusLines

\* C25: the assignee group of an issue is keyed by the assignee's display
\* name when that is non-empty, by the assignee's name when the display name
\* is empty, and by the literal "Unassigned" exactly when the issue has no
\* assignee; an issue that has an assignee is never counted in the
\* "Unassigned" group.
C25_AssigneeKey ==
    Grouped
    => \A groups \in groupByAssignee(allIssues) :
        \A k \in 1..Len(groups) :
            \A i \in 1..Len(groups[k].issues) :
                LET assignee == groups[k].issues[i].assignee
                IN  /\ assignee.present /\ assignee.displayName # ""
                       => groups[k].name = assignee.displayName
                    /\ assignee.present /\ assignee.displayName = ""
                       => groups[k].name = assignee.name
                    /\ groups[k].name = "Unassigned" <=> ~assignee.present

\* C26: for every known event type (Issue, Comment, Project) an empty body
\* (issue description, project description, comment body) is rendered in the
\* message as the literal placeholder text, and a non-empty body as its
\* truncation to the budget of the type (300 for descriptions, 500 for
\* comment bodies).
BodyBudget(type) == IF type = "Comment" THEN 500 ELSE 300
C26_BodyRendering ==
    (WebhookDone /\ posts # <<>> /\ req.body.type \in KnownTypes)
    => LET text == req.body.data.text
           rendered == posts[1].embeds[1].body
       IN  IF text = <<>> THEN rendered = NoDescription
           ELSE rendered = Expected(text, BodyBudget(req.body.type))

\* C27: in the per-assignee report, when a delivery fails the report stops
\* at once: the batches delivered before it stay delivered, no later batch is
\* sent and no further delay is taken, the failure is returned and the
\* handler answers with a 500 status, so that a failed request may have
\* delivered a strict prefix of its embeds.
DeliveryFailed == posts # <<>> /\ ~Is2xx(posts[Len(posts)].outcome)
C27_FailureStopsUserReport ==
    req.endpoint = "/report/by-user"
    => /\ \A i \in 1..(Len(posts) - 1) : Is2xx(posts[i].outcome)
       /\ DeliveryFailed
          => /\ pc = "done"
             /\ resp.status = StatusInternalServerError
             /\ Len(sleeps) = Len(posts) - 1
             /\ \A i \in 1..Len(sleeps) : sleeps[i].after < Len(posts)
             /\ byAssignee # <<>>
                => LET all == <<headerEmbed(allIssues, byAssignee)>>
                              \o [k \in 1..Len(byAssignee) |-> userEmbed(byAssignee[k])]
                       delivered == Flatten([i \in 1..(Len(posts) - 1) |-> posts[i].embeds])
                   IN  /\ Len(delivered) < Len(all)
                       /\ delivered = SubSeq(all, 1, Len(delivered))

\* the second batch of a report failed after the first had been delivered
C27_Witness ==
    /\ req.endpoint = "/report/by-user"
    /\ pc = "done"
    /\ Len(posts) = 2
    /\ Is2xx(posts[1].outcome)
    /\ DeliveryFailed
    /\ Len(posts[1].embeds) = EmbedBatch
    /\ sleeps # <<>>

\* C28: for every non-empty list of fetched issues the summary report makes
\* exactly one outbound delivery, which carries at least 1 and at most 3
\* embeds with the summary embed first, so it never exceeds the platform cap
\* of 10 embeds per message.
C28_OneSummaryDelivery ==
    (req.endpoint = "/report" /\ allIssues # <<>>)
    => /\ Len(posts) = IF FetchedAll THEN 1 ELSE 0
       /\ \A p \in 1..Len(posts) :
            /\ Len(posts[p].embeds) \in 1..3
            /\ posts[p].embeds[1].title = "Linear Daily Digest"
            /\ posts[p].embeds[1].count = Len(allIssues)
            /\ Len(posts[p].embeds) <= EmbedBatch

\* a report whose delivery carries the summary and both optional sections
C28_Witness ==
    /\ FetchedAll
    /\ req.endpoint = "/report"
    /\ Len(allIssues) > EmbedBatch
    /\ Len(posts) = 1
    /\ [j \in 1..Len(posts[1].embeds) |-> posts[1].embeds[j].title]
           = <<"Linear Daily Digest", "Priority Issues", "Recently Updated">>

====
